---- MODULE Spec2Model ----
(***************************************************************************)
(* A model of the PDF title/outline extractor: utils.py (text cleaning,    *)
(* level normalisation, heading and title predicates), outline_extractor.py*)
(* (bookmark and content strategies, hierarchy normaliser),                *)
(* title_extractor.py (four ordered strategies), pdf_processor.py          *)
(* (process_pdf) and the thread pool of process_pdfs.py.                   *)
(*                                                                         *)
(* A text is a sequence of characters; a character is a one-character      *)
(* string, except SOH, which stands for the control character U+0001.      *)
(***************************************************************************)
EXTENDS Integers, Sequences, FiniteSets, TLC

VARIABLES
    pc,        \* pc[w]: where worker w stands in process_pdf
    doc,       \* doc[w]: the document worker w was submitted
    title,     \* title[w]: the local `title` of process_pdf
    ran,       \* ran[w]: the strategies worker w has run so far, in order
    outline,   \* outline[w]: the local `outline` under construction
    pageNum,   \* pageNum[w]: loop variable of _extract_from_content
    fixIdx,    \* fixIdx[w]: loop position of _fix_hierarchy
    frames,    \* frames[f].current_level: the local of _fix_hierarchy in frame f
    result,    \* result[w]: what process_pdf returned
    nraw,      \* normaliser harness: the raw outline handed to _refine_outline
    nmid,      \* normaliser harness: `refined` before _fix_hierarchy (line 225)
    nout,      \* normaliser harness: _refine_outline(nraw)
    nout2,     \* normaliser harness: _refine_outline(nout)
    nphase,    \* normaliser harness: "raw", "once", "twice"
    probe,     \* classifier harness: the arguments of a call of
               \* detect_heading_level and the level it returned
    status     \* status[w]: the status process_single_pdf recorded

vars == <<pc, doc, title, ran, outline, pageNum, fixIdx, frames, result,
          nraw, nmid, nout, nout2, nphase, probe, status>>

(***************************************************************************)
(* Characters                                                              *)
(***************************************************************************)
SOH == "SOH"

UpperSeq == <<"A","B","C","D","E","F","G","H","I","J","K","L","M",
              "N","O","P","Q","R","S","T","U","V","W","X","Y","Z">>
LowerSeq == <<"a","b","c","d","e","f","g","h","i","j","k","l","m",
              "n","o","p","q","r","s","t","u","v","w","x","y","z">>

UpperSet == {UpperSeq[i] : i \in DOMAIN UpperSeq}
LowerSet == {LowerSeq[i] : i \in DOMAIN LowerSeq}
DigitSet == {"0","1","2","3","4","5","6","7","8","9"}
SpaceSet == {" ", "\t", "\n"}
RomanSet == {"I", "V", "X"}

IsSpace(c) == c \in SpaceSet
IsDigit(c) == c \in DigitSet
IsUpper(c) == c \in UpperSet
IsLower(c) == c \in LowerSet
IsCased(c) == IsUpper(c) \/ IsLower(c)

\* str.lower() on one character
LowerChar(c) ==
    IF c \in UpperSet
    THEN LowerSeq[CHOOSE i \in DOMAIN UpperSeq : UpperSeq[i] = c]
    ELSE c

\* str.lower()
Lower(s) == [i \in DOMAIN s |-> LowerChar(s[i])]

Rep(c, n) == [i \in 1..n |-> c]

Min(S) == CHOOSE x \in S : \A y \in S : x <= y
Max(S) == CHOOSE x \in S : \A y \in S : x >= y

\* the subsequence of s at the positions satisfying Keep
Filter(s, Keep(_)) ==
    LET ix == SelectSeq([i \in 1..Len(s) |-> i], Keep)
    IN  [k \in 1..Len(ix) |-> s[ix[k]]]

\* str.strip(): leading and trailing whitespace removed
Strip(s) ==
    LET n == Len(s)
        lead == Min({k \in 0..n : k = n \/ ~IsSpace(s[k + 1])})
        trail == Min({k \in 0..n : k = n \/ ~IsSpace(s[n - k])})
    IN  IF lead = n THEN <<>> ELSE SubSeq(s, lead + 1, n - trail)

\* first position >= i of s that does not hold a character of set C
\* (Len(s)+1 when there is none): the end of a greedy C* started at i
SkipRun(s, i, C) ==
    Min({j \in i..Len(s) : s[j] \notin C} \cup {Len(s) + 1})

\* s[i], or the empty string (no character) when i is outside s
At(s, i) == IF i \in 1..Len(s) THEN s[i] ELSE ""

StartsWith(s, w) == Len(s) >= Len(w) /\ SubSeq(s, 1, Len(w)) = w

\* Python's `w in s`
Contains(s, w) ==
    \E i \in 1..(Len(s) - Len(w) + 1) : SubSeq(s, i, i + Len(w) - 1) = w

(***************************************************************************)
(* utils.clean_text                                                        *)
(***************************************************************************)
\* re.sub(r'\s+', ' ', t): every whitespace run becomes one space
CollapseSpaces(t) ==
    LET first(i) == ~IsSpace(t[i]) \/ i = 1 \/ ~IsSpace(t[i - 1])
        kept == Filter(t, first)
    IN  [k \in 1..Len(kept) |-> IF IsSpace(kept[k]) THEN " " ELSE kept[k]]

\* the characters of [\x20-\x7E] and of U+00A0..U+FFFF
IsPrintable(c) == c \notin {SOH, "\t", "\n"}

\* re.sub(r'[^\x20-\x7E...]', '', t): the other characters are dropped
StripNonPrintable(t) == SelectSeq(t, IsPrintable)

\* re.sub(r'\.{3,}', '...', t): of a run of dots only the first three stay
CollapseDots(t) ==
    LET keep(i) == ~(/\ t[i] = "."
                     /\ At(t, i - 1) = "."
                     /\ At(t, i - 2) = "."
                     /\ At(t, i - 3) = ".")
    IN  Filter(t, keep)

\* where a match of \s*\.\s*\.\s*\. that starts at i ends (0: no match at i)
SpacedDotsEnd(t, i) ==
    LET a1 == SkipRun(t, i, SpaceSet)
        a2 == SkipRun(t, a1 + 1, SpaceSet)
        a3 == SkipRun(t, a2 + 1, SpaceSet)
    IN  IF At(t, a1) = "." /\ At(t, a2) = "." /\ At(t, a3) = "." THEN a3 ELSE 0

\* re.sub(r'\s*\.\s*\.\s*\.', '...', t) from position pos on: leftmost
\* matches, left to right, not overlapping
RECURSIVE SpacedDotsFrom(_, _)
SpacedDotsFrom(t, pos) ==
    LET starts == {i \in pos..Len(t) :
                     /\ t[i] \in SpaceSet \cup {"."}
                     /\ SpacedDotsEnd(t, i) > 0}
    IN  IF starts = {}
        THEN SubSeq(t, pos, Len(t))
        ELSE LET m == Min(starts)
             IN  SubSeq(t, pos, m - 1) \o <<".", ".", ".">>
                   \o SpacedDotsFrom(t, SpacedDotsEnd(t, m) + 1)

clean_text(text) ==
    Strip(SpacedDotsFrom(CollapseDots(StripNonPrintable(
        CollapseSpaces(Strip(text)))), 1))

(***************************************************************************)
(* Words the source's tables and patterns name                             *)
(***************************************************************************)
W_chapter    == <<"c","h","a","p","t","e","r">>
W_section    == <<"s","e","c","t","i","o","n">>
W_subsection == <<"s","u","b">> \o W_section
W_part       == <<"p","a","r","t">>
W_appendix   == <<"a","p","p","e","n","d","i","x">>
W_page       == <<"p","a","g","e">>
W_of         == <<"o","f">>
W_table      == <<"t","a","b","l","e">>
W_figure     == <<"f","i","g","u","r","e">>
W_chart      == <<"c","h","a","r","t">>
W_diagram    == <<"d","i","a","g","r","a","m">>
W_see        == <<"s","e","e">>
W_refer      == <<"r","e","f","e","r">>
W_note       == <<"n","o","t","e">>
W_example    == <<"e","x","a","m","p","l","e">>
W_http       == <<"h","t","t","p">>
W_www        == <<"w","w","w">>
W_ftp        == <<"f","t","p">>
W_contents     == <<"c","o","n","t","e","n","t","s">>
W_index        == <<"i","n","d","e","x">>
W_bibliography == <<"b","i","b","l","i","o","g","r","a","p","h","y">>
W_abstract     == <<"a","b","s","t","r","a","c","t">>
W_introduction == <<"i","n","t","r","o","d","u","c","t","i","o","n">>
W_conclusion   == <<"c","o","n","c","l","u","s","i","o","n">>

(***************************************************************************)
(* utils.normalize_level: f"h{level}" is the pair <<"h", level>>           *)
(***************************************************************************)
H(n) == <<"h", n>>

MinLevel == 1
MaxLevel == 6

\* the level is formatted without being clamped
normalize_level_unclamped(level) == H(level)

normalize_level(level) ==
    H(IF level > MaxLevel THEN MaxLevel
      ELSE IF level < MinLevel THEN MinLevel ELSE level)

(***************************************************************************)
(* utils.detect_heading_level.  An average font size is the exact fraction *)
(* <<total, count>>; a comparison with it is made by cross-multiplication. *)
(***************************************************************************)
\* re.match(r'^\d+\.\d+\.\d+', t)
MatchNum3(t) ==
    LET d1 == SkipRun(t, 1, DigitSet)
        d2 == SkipRun(t, d1 + 1, DigitSet)
    IN  /\ d1 > 1 /\ At(t, d1) = "."
        /\ d2 > d1 + 1 /\ At(t, d2) = "."
        /\ IsDigit(At(t, d2 + 1))

\* re.match(r'^\d+\.\d+', t)
MatchNum2(t) ==
    LET d1 == SkipRun(t, 1, DigitSet)
    IN  d1 > 1 /\ At(t, d1) = "." /\ IsDigit(At(t, d1 + 1))

\* re.match(r'^\d+\.?', t)
MatchNum1(t) == IsDigit(At(t, 1))

\* re.match(r'^[IVX]+\.?', t)
MatchRoman(t) == At(t, 1) \in RomanSet

\* re.match(r'^[A-Z]\.', t)
MatchLetterDot(t) == IsUpper(At(t, 1)) /\ At(t, 2) = "."

\* size_ratio >= tenths/10, size_ratio being font_size / avg when avg > 0
\* and 1.0 otherwise
RatioAtLeast(font_size, avg, tenths) ==
    IF avg[1] > 0
    THEN 10 * font_size * avg[2] >= tenths * avg[1]
    ELSE 10 >= tenths

\* the keywords looked at before the numbering
detect_heading_level_keywords_first(text, font_size, flags, avg_font_size) ==
    LET text_lower == Lower(text)
    IN  IF Contains(text_lower, W_chapter) \/ Contains(text_lower, W_part)
             THEN H(1)
        ELSE IF Contains(text_lower, W_section) THEN H(2)
        ELSE IF Contains(text_lower, W_subsection) THEN H(3)
        ELSE IF MatchNum3(text) THEN H(3)
        ELSE IF MatchNum2(text) THEN H(2)
        ELSE IF MatchNum1(text) THEN H(1)
        ELSE IF MatchRoman(text) THEN H(1)
        ELSE IF MatchLetterDot(text) THEN H(2)
        ELSE IF RatioAtLeast(font_size, avg_font_size, 18) THEN H(1)
        ELSE IF RatioAtLeast(font_size, avg_font_size, 15) THEN H(2)
        ELSE IF RatioAtLeast(font_size, avg_font_size, 12) THEN H(3)
        ELSE H(4)

detect_heading_level(text, font_size, flags, avg_font_size) ==
    LET text_lower == Lower(text)
    IN  IF MatchNum3(text) THEN H(3)
        ELSE IF MatchNum2(text) THEN H(2)
        ELSE IF MatchNum1(text) THEN H(1)
        ELSE IF MatchRoman(text) THEN H(1)
        ELSE IF MatchLetterDot(text) THEN H(2)
        ELSE IF Contains(text_lower, W_chapter) \/ Contains(text_lower, W_part)
             THEN H(1)
        ELSE IF Contains(text_lower, W_section) THEN H(2)
        ELSE IF Contains(text_lower, W_subsection) THEN H(3)
        ELSE IF RatioAtLeast(font_size, avg_font_size, 18) THEN H(1)
        ELSE IF RatioAtLeast(font_size, avg_font_size, 15) THEN H(2)
        ELSE IF RatioAtLeast(font_size, avg_font_size, 12) THEN H(3)
        ELSE H(4)

(***************************************************************************)
(* utils.is_likely_title                                                   *)
(***************************************************************************)
TitleMinLen == 3
TitleMaxLen == 200
AllCapsMaxLen == 50

\* str.isupper(): a cased character exists and none is lower-case
IsUpperText(t) ==
    /\ \E i \in 1..Len(t) : IsCased(t[i])
    /\ \A i \in 1..Len(t) : ~IsLower(t[i])

\* re.search(r'^\d+$', t); $ also matches before a final newline
OnlyDigits(t) ==
    LET e == SkipRun(t, 1, DigitSet)
    IN  e > 1 /\ (e = Len(t) + 1 \/ (e = Len(t) /\ t[e] = "\n"))

\* re.search(r'^page\s+\d+', t)
PageNumber(t) ==
    LET a == SkipRun(t, Len(W_page) + 1, SpaceSet)
    IN  StartsWith(t, W_page) /\ a > Len(W_page) + 1 /\ IsDigit(At(t, a))

\* re.search(r'^\d+\s*of\s*\d+', t)
NOfM(t) ==
    LET d == SkipRun(t, 1, DigitSet)
        a == SkipRun(t, d, SpaceSet)
        b == SkipRun(t, a + 2, SpaceSet)
    IN  /\ d > 1
        /\ At(t, a) = "o" /\ At(t, a + 1) = "f"
        /\ IsDigit(At(t, b))

\* the non_title_patterns, searched in text_lower
NonTitlePattern(tl) ==
    \/ OnlyDigits(tl)
    \/ PageNumber(tl)
    \/ NOfM(tl)
    \/ \E w \in {W_table, W_figure, W_chart, W_diagram} : StartsWith(tl, w)
    \/ \E w \in {W_see, W_refer, W_note, W_example} : StartsWith(tl, w)
    \/ \E w \in {W_http, W_www, W_ftp} : StartsWith(tl, w)
    \/ Contains(tl, <<"@">>)

\* re.search(r'^(chapter|section|part)\s+\d+', t)
KeywordNumber(t) ==
    \E w \in {W_chapter, W_section, W_part} :
        LET a == SkipRun(t, Len(w) + 1, SpaceSet)
        IN  StartsWith(t, w) /\ a > Len(w) + 1 /\ IsDigit(At(t, a))

\* re.search(r'^C+\.?\s+[A-Z]', t) for the character class C
LeadThenCapital(t, C) ==
    LET d == SkipRun(t, 1, C)
        p == IF At(t, d) = "." THEN d + 1 ELSE d
        a == SkipRun(t, p, SpaceSet)
    IN  d > 1 /\ a > p /\ IsUpper(At(t, a))

\* the title_indicators, searched in text
TitleIndicator(t) ==
    \/ KeywordNumber(t)
    \/ LeadThenCapital(t, DigitSet)
    \/ LeadThenCapital(t, RomanSet)

is_likely_title(text) ==
    IF Len(text) < TitleMinLen THEN FALSE
    ELSE IF Len(text) > TitleMaxLen THEN FALSE
    ELSE IF NonTitlePattern(Lower(text)) THEN FALSE
    ELSE IF TitleIndicator(text) THEN TRUE
    ELSE /\ IsUpper(text[1])
         /\ \E i \in 1..Len(text) : IsCased(text[i])
         /\ (~IsUpperText(text) \/ Len(text) <= AllCapsMaxLen)

(***************************************************************************)
(* Sequence helpers                                                        *)
(***************************************************************************)
\* list.sort(key=...), a stable sort: an element goes after those of
\* smaller key and after the earlier ones of equal key
SortBy(s, key(_)) ==
    LET rank(i) == Cardinality({j \in 1..Len(s) :
                      \/ key(s[j]) < key(s[i])
                      \/ (key(s[j]) = key(s[i]) /\ j < i)}) + 1
    IN  [k \in 1..Len(s) |-> s[CHOOSE i \in 1..Len(s) : rank(i) = k]]

Range(s) == {s[i] : i \in 1..Len(s)}

RECURSIVE Concat(_)
Concat(ss) == IF ss = <<>> THEN <<>> ELSE Head(ss) \o Concat(Tail(ss))

RECURSIVE SumSizes(_)
SumSizes(spans) ==
    IF spans = <<>> THEN 0 ELSE Head(spans).size + SumSizes(Tail(spans))

\* flags & 2**4
BoldBit == 16
IsBold(flags) == (flags \div BoldBit) % 2 = 1

(***************************************************************************)
(* The document as the parsing engine presents it: metadata title, native  *)
(* outline (get_toc) and, per page, the spans of get_text("dict") in       *)
(* block, line, span order.  page_count is the number of pages.            *)
(*                                                                         *)
(* The engine may fail: d.faults tells whether opening the document       *)
(* raises (fitz.open), whether reading doc.metadata                        *)
(* raises, whether get_toc() raises, for which pages k indexing the page   *)
(* (doc[k - 1]) raises and for which pages get_text raises.  A native      *)
(* outline entry that is not a triple cannot be unpacked into level,       *)
(* title, page; a span whose text is Malformed is not a string, so that    *)
(* span.get("text", "").strip() raises.                                    *)
(***************************************************************************)
page_count(d) == Len(d.pages)

NoFaults == [open |-> FALSE, metadata |-> FALSE, get_toc |-> FALSE,
             page |-> {}, get_text |-> {}]

Malformed == <<"Malformed">>

IsMalformedSpan(sp) == sp.text = Malformed

\* `level, title, page = item` raises for such an entry
IsMalformedEntry(entry) == Len(entry) # 3

\* the exception an operation lets out
Raised == <<"Raised">>

\* the span loop shared by _find_headings_on_page (lines 131-146) and
\* _get_text_blocks_with_formatting: stripped text, empty ones dropped
StrippedSpans(page) ==
    SelectSeq([i \in 1..Len(page) |-> [page[i] EXCEPT !.text = Strip(@)]],
              LAMBDA sp : sp.text # <<>>)

\* the spans of a page before its first malformed one
WellFormedPrefix(page) ==
    SubSeq(page, 1, Min({i \in 1..Len(page) : IsMalformedSpan(page[i])}
                        \cup {Len(page) + 1}) - 1)

\* _get_text_blocks_with_formatting for page k: its own handler returns
\* the blocks collected before get_text or a span raised
text_blocks(d, k) ==
    IF k \in d.faults.get_text THEN <<>>
    ELSE StrippedSpans(WellFormedPrefix(d.pages[k]))

(***************************************************************************)
(* OutlineExtractor                                                        *)
(***************************************************************************)
HeadingMinLen == 3
HeadingMaxLen == 200
BoldMaxLen == 100
DefaultAvgSize == 12

calculate_average_font_size(text_spans) ==
    IF text_spans = <<>> THEN <<DefaultAvgSize, 1>>
    ELSE <<SumSizes(text_spans), Len(text_spans)>>

\* \s+.+ matched at p: one or more whitespace, then a character that is
\* not a newline
SpaceThenAny(t, p) ==
    \E k \in (p + 1)..SkipRun(t, p, SpaceSet) : At(t, k) \notin {"", "\n"}

\* ^(C+\.?\s+.+) for the character class C
LeadThenText(t, C) ==
    LET d == SkipRun(t, 1, C)
        p == IF At(t, d) = "." THEN d + 1 ELSE d
    IN  d > 1 /\ SpaceThenAny(t, p)

\* ^([A-Z]\.?\s+.+), case ignored: t is lower-cased
LetterThenText(t) ==
    /\ IsLower(At(t, 1))
    /\ SpaceThenAny(t, IF At(t, 2) = "." THEN 3 ELSE 2)

\* ^(word\s+\d+.+), case ignored: t is lower-cased
WordNumberText(t, w) ==
    LET a == SkipRun(t, Len(w) + 1, SpaceSet)
    IN  /\ StartsWith(t, w) /\ a > Len(w) + 1
        /\ IsDigit(At(t, a)) /\ At(t, a + 1) \notin {"", "\n"}

\* ^(\d+\.\d+\s+.+)
Num2ThenText(t) ==
    LET d1 == SkipRun(t, 1, DigitSet)
        d2 == SkipRun(t, d1 + 1, DigitSet)
    IN  /\ d1 > 1 /\ At(t, d1) = "." /\ d2 > d1 + 1
        /\ SpaceThenAny(t, d2)

\* ^(\d+\.\d+\.\d+\s+.+)
Num3ThenText(t) ==
    LET d1 == SkipRun(t, 1, DigitSet)
        d2 == SkipRun(t, d1 + 1, DigitSet)
        d3 == SkipRun(t, d2 + 1, DigitSet)
    IN  /\ d1 > 1 /\ At(t, d1) = "." /\ d2 > d1 + 1
        /\ At(t, d2) = "." /\ d3 > d2 + 1
        /\ SpaceThenAny(t, d3)

\* self.heading_patterns, matched with re.IGNORECASE
HeadingPattern(text) ==
    LET t == Lower(text)
    IN  \/ LeadThenText(t, DigitSet)
        \/ LeadThenText(t, {"i", "v", "x"})
        \/ LetterThenText(t)
        \/ WordNumberText(t, W_chapter)
        \/ WordNumberText(t, W_section)
        \/ Num2ThenText(t)
        \/ Num3ThenText(t)

\* the keys of self.level_indicators
LevelIndicators == {W_chapter, W_section, W_subsection, W_part, W_appendix}

is_likely_heading(text, font_size, flags, avg_font_size) ==
    IF Len(text) < HeadingMinLen \/ Len(text) > HeadingMaxLen THEN FALSE
    ELSE IF 10 * font_size * avg_font_size[2] > 12 * avg_font_size[1] THEN TRUE
    ELSE IF IsBold(flags) /\ Len(text) < BoldMaxLen THEN TRUE
    ELSE IF HeadingPattern(text) THEN TRUE
    ELSE \E w \in LevelIndicators : Contains(Lower(text), w)

\* lines 125-170: get_text or a span of the collecting loop raising leaves
\* `headings` empty
PageUnreadable(d, page_num) ==
    \/ page_num \in d.faults.get_text
    \/ \E i \in 1..Len(d.pages[page_num]) : IsMalformedSpan(d.pages[page_num][i])

find_headings_on_page(d, page_num) ==
    IF PageUnreadable(d, page_num) THEN <<>>
    ELSE
    LET text_spans == SortBy(StrippedSpans(d.pages[page_num]), LAMBDA sp : sp.y)
        avg == calculate_average_font_size(text_spans)
        heads == SelectSeq(text_spans,
                   LAMBDA sp : is_likely_heading(sp.text, sp.size, sp.flags, avg))
    IN  [i \in 1..Len(heads) |->
           [level |-> detect_heading_level(heads[i].text, heads[i].size,
                                           heads[i].flags, avg),
            text  |-> clean_text(heads[i].text),
            page  |-> page_num]]

\* level_map.get(item["level"], 1)
LevelNum(level) ==
    IF level[1] = "h" /\ level[2] \in MinLevel..MaxLevel THEN level[2] ELSE 1

\* the level is left as it is
ClampLevelNone(level_num, current_level) == level_num

\* a jump is made one level smaller, not clamped
ClampLevelStepDown(level_num, current_level) ==
    IF level_num > current_level + 1 THEN level_num - 1 ELSE level_num

\* a return to a shallower level is not let through either
ClampLevelNoReturn(level_num, current_level) ==
    IF level_num > current_level + 1 THEN current_level + 1
    ELSE IF level_num < current_level THEN current_level
    ELSE level_num

\* lines 248-249: no jump of more than one level
ClampLevel(level_num, current_level) ==
    IF level_num > current_level + 1 THEN current_level + 1 ELSE level_num

\* the loop of _fix_hierarchy from item i on
RECURSIVE FixFrom(_, _, _)
FixFrom(items, i, current_level) ==
    IF i > Len(items) THEN items
    ELSE LET level_num == ClampLevel(LevelNum(items[i].level), current_level)
         IN  FixFrom([items EXCEPT ![i].level = H(level_num)], i + 1, level_num)

InitialLevel == 1

fix_hierarchy(items) == FixFrom(items, 1, InitialLevel)

\* the text taken as it is, case and all
ItemKeyCaseSensitive(item) == <<item.text, item.page>>

\* key = (item["text"].lower(), item["page"])
ItemKey(item) == <<Lower(item.text), item.page>>

\* lines 214-222: the first item of every key, in order
RemoveDuplicates(items) ==
    Filter(items, LAMBDA i : \A j \in 1..(i - 1) : ItemKey(items[j]) # ItemKey(items[i]))

\* lines 214-225: duplicates removed, then sorted by page
DedupeAndSort(items) == SortBy(RemoveDuplicates(items), LAMBDA it : it.page)

refine_outline(items) == fix_hierarchy(DedupeAndSort(items))

TextMinLen == 2

\* lines 76-93 for one entry <<level, title, page>>: the item, or <<>>
BookmarkItem(d, entry) ==
    LET clean_title == clean_text(entry[2])
    IN  IF Len(clean_title) < TextMinLen THEN <<>>
        ELSE << [level |-> normalize_level(entry[1]),
                 text  |-> clean_title,
                 page  |-> Max({1, Min({entry[3], page_count(d)})})] >>

\* lines 67-99: get_toc raising, or an entry that cannot be unpacked,
\* ends in the handler of line 97, which returns []
BookmarksFail(d) ==
    \/ d.faults.get_toc
    \/ \E i \in 1..Len(d.toc) : IsMalformedEntry(d.toc[i])

extract_from_bookmarks(d) ==
    IF BookmarksFail(d) THEN <<>>
    ELSE Concat([i \in 1..Len(d.toc) |-> BookmarkItem(d, d.toc[i])])

\* the raw outline after the pages 1..n of the loop at lines 107-110
RawHeadings(d, n) ==
    Concat([k \in 1..n |-> find_headings_on_page(d, k)])

\* line 108, `page = doc[page_num]`, is outside the handler of
\* _find_headings_on_page: it raising ends in the handler of line 117
ContentFails(d) == \E k \in 1..page_count(d) : k \in d.faults.page

extract_from_content(d) ==
    IF ContentFails(d) THEN <<>>
    ELSE refine_outline(RawHeadings(d, page_count(d)))

\* the bookmark outline is never taken
BookmarksNeverWin(bookmarks) == FALSE

\* line 52, `if outline:`: the bookmark outline is returned when not empty
BookmarksWin(bookmarks) == bookmarks # <<>>

extract_outline(d) ==
    IF BookmarksWin(extract_from_bookmarks(d))
    THEN extract_from_bookmarks(d)
    ELSE extract_from_content(d)

(***************************************************************************)
(* TitleExtractor.  A strategy returns a text or None.                     *)
(***************************************************************************)
None == <<"None">>

\* `if title:`: neither None nor the empty string
Truthy(t) == t # None /\ t # <<>>

\* a text or None in place of the "" that extract_title returns at last
NoTitleNone == None

\* line 69, `return ""`: what extract_title returns when no strategy did
NoTitle == <<>>

MetaMinLen == 3

\* the handler of line 80 left out: the exception gets out
extract_from_metadata_uncaught(d) ==
    IF d.faults.metadata THEN Raised
    ELSE LET t == Strip(d.meta)
         IN  IF t # <<>> /\ Len(t) > MetaMinLen THEN clean_text(t) ELSE None

extract_from_metadata(d) ==
    IF d.faults.metadata THEN None
    ELSE LET t == Strip(d.meta)
         IN  IF t # <<>> /\ Len(t) > MetaMinLen THEN clean_text(t) ELSE None

extract_from_outline(d) ==
    IF d.faults.get_toc THEN None
    ELSE IF d.toc = <<>> THEN None
    ELSE IF IsMalformedEntry(d.toc[1]) THEN None
    ELSE IF d.toc[1][1] = 1 /\ is_likely_title(d.toc[1][2])
    THEN clean_text(d.toc[1][2])
    ELSE None

\* self.ignore_words
IgnoreWords == {W_page, W_chapter, W_section, W_table, W_figure, W_contents,
                W_index, W_appendix, W_bibliography, W_abstract,
                W_introduction, W_conclusion}

\* str.istitle(): an upper-case letter only after an uncased character, a
\* lower-case letter only after a cased one, and a cased character exists
IsTitleCase(t) ==
    /\ \E i \in 1..Len(t) : IsCased(t[i])
    /\ \A i \in 1..Len(t) :
         /\ IsUpper(t[i]) => ~IsCased(At(t, i - 1))
         /\ IsLower(t[i]) => IsCased(At(t, i - 1))

TopOfPage == 800
GoodLenMin == 10
GoodLenMax == 100
LongCapsLen == 20

\* _calculate_title_score, times ten (the position term is divided by 10)
calculate_title_score(block) ==
    20 * block.size
    + (IF TopOfPage - block.y > 0 THEN TopOfPage - block.y ELSE 0)
    + (IF IsBold(block.flags) THEN 200 ELSE 0)
    + (IF GoodLenMin <= Len(block.text) /\ Len(block.text) <= GoodLenMax
       THEN 300 ELSE 0)
    + (IF IsTitleCase(block.text) THEN 150 ELSE 0)
    - (IF IsUpperText(block.text) /\ Len(block.text) > LongCapsLen
       THEN 100 ELSE 0)

FirstPageMinLen == 5
FirstPageMaxLen == 200

\* lines 116-134: the blocks of the first page that become candidates
IsFirstPageCandidate(block) ==
    /\ ~(Len(block.text) < FirstPageMinLen \/ Len(block.text) > FirstPageMaxLen)
    /\ ~\E w \in IgnoreWords : Contains(Lower(block.text), w)
    /\ is_likely_title(block.text)

\* lines 114-134: the candidates, in the order of the blocks
FirstPageCandidates(d) == SelectSeq(text_blocks(d, 1), IsFirstPageCandidate)

Reverse(s) == [i \in 1..Len(s) |-> s[Len(s) + 1 - i]]

\* sorted by ascending score and then reversed
SortCandidatesReversed(candidates) ==
    Reverse(SortBy(candidates, LAMBDA b : calculate_title_score(b)))

\* line 137, candidates.sort(key=score, reverse=True): descending score,
\* candidates of equal score staying in their order
SortCandidates(candidates) ==
    SortBy(candidates, LAMBDA b : 0 - calculate_title_score(b))

extract_from_first_page(d) ==
    IF page_count(d) = 0 THEN None
    ELSE IF 1 \in d.faults.page THEN None
    ELSE LET candidates == SortCandidates(FirstPageCandidates(d))
         IN  IF candidates # <<>> THEN clean_text(candidates[1].text) ELSE None

FontScanPages == 3
FontScanMinLen == 5

\* a scan in which a candidate of the current maximum size takes the place
\* of the ones before it
RECURSIVE FontScanLastWins(_, _, _)
FontScanLastWins(blocks, i, st) ==
    IF i > Len(blocks) THEN st
    ELSE LET b == blocks[i]
             ok == Len(b.text) > FontScanMinLen /\ is_likely_title(b.text)
         IN  FontScanLastWins(blocks, i + 1,
                IF b.size >= st[1] /\ ok THEN <<b.size, <<b.text>> >> ELSE st)

\* lines 158-166: the loop body over the blocks, from block i on; st is
\* <<max_font_size, title_candidates>>
RECURSIVE FontScan(_, _, _)
FontScan(blocks, i, st) ==
    IF i > Len(blocks) THEN st
    ELSE LET b == blocks[i]
             ok == Len(b.text) > FontScanMinLen /\ is_likely_title(b.text)
         IN  FontScan(blocks, i + 1,
                IF b.size > st[1] /\ ok THEN <<b.size, <<b.text>> >>
                ELSE IF b.size = st[1] /\ ok THEN <<st[1], Append(st[2], b.text)>>
                ELSE st)

extract_by_font_size(d) ==
    LET n == Min({FontScanPages, page_count(d)})
        blocks == Concat([k \in 1..n |-> text_blocks(d, k)])
        title_candidates == FontScan(blocks, 1, <<0, <<>> >>)[2]
    IN  IF \E k \in 1..n : k \in d.faults.page THEN None
        ELSE IF title_candidates # <<>> THEN clean_text(title_candidates[1])
        ELSE None

\* the outline root tried before the metadata
StrategiesOutlineFirst == <<"outline", "metadata", "first_page", "font_size">>

\* the strategies of extract_title, in the order it tries them
Strategies == <<"metadata", "outline", "first_page", "font_size">>

RunStrategy(name, d) ==
    CASE name = "metadata"   -> extract_from_metadata(d)
      [] name = "outline"    -> extract_from_outline(d)
      [] name = "first_page" -> extract_from_first_page(d)
      [] name = "font_size"  -> extract_by_font_size(d)

\* extract_title from strategy number k on
RECURSIVE TitleFrom(_, _)
TitleFrom(d, k) ==
    IF k > Len(Strategies) THEN NoTitle
    ELSE LET t == RunStrategy(Strategies[k], d)
         IN  IF Truthy(t) THEN t ELSE TitleFrom(d, k + 1)

extract_title(d) == TitleFrom(d, 1)

(***************************************************************************)
(* PDFProcessor.process_pdf                                                *)
(***************************************************************************)
EmptyResult == [title |-> <<>>, outline |-> <<>>]

\* line 39: fitz.open raises for a document that cannot be opened;
\* line 41: `doc.is_closed or doc.page_count == 0` raises ValueError
IsInvalid(d) == d.faults.open \/ page_count(d) = 0

process_pdf(d) ==
    IF IsInvalid(d) THEN EmptyResult
    ELSE [title |-> extract_title(d), outline |-> extract_outline(d)]

(***************************************************************************)
(* Bounds and input pools                                                  *)
(***************************************************************************)
NumWorkers == 2     \* worker threads, one submitted document each
MaxPages == 2       \* pages of a document
MaxRaw == 3         \* items of a raw outline handed to the normaliser

Workers == 1..NumWorkers

\* the limits the validator puts on a result (json_validator.py)
TitleLimit == 500
TextLimit == 1000

T_annual   == <<"A","n","n","u","a","l"," ","R","e","p","o","r","t"," ","2","0","2","3">>
T_mydoc    == <<" ","M","y"," "," ","D","o","c"," ">>
T_abc      == <<"a","b","c">>
T_intro    == <<"I","n","t","r","o">>
T_deep     == <<"D","e","e","p"," ","D","i","v","e">>
T_back     == <<"B","a","c","k","g","r","o","u","n","d">>
T_page5    == <<"P","a","g","e"," ","5">>
T_exec     == <<"E","x","e","c","u","t","i","v","e"," ","S","u","m","m","a","r","y">>
T_by       == <<"b","y"," ","J","a","n","e"," ","D","o","e">>
T_one      == <<"1"," ","I","n","t","r","o">>
T_one_lc   == <<"1"," ","i","n","t","r","o">>
T_num3     == <<"1",".","2",".","3"," ","D","e","e","p">>
T_chapter  == <<"C","h","a","p","t","e","r"," ","O","n","e">>
T_section  == <<"S","e","c","t","i","o","n"," ","T","w","o">>
T_appendix == <<"A","p","p","e","n","d","i","x"," ","A">>
T_body     == <<"p","l","a","i","n"," ","w","o","r","d","s">>
T_blank    == <<" "," ">>
T_ctl4     == <<SOH, SOH, SOH, SOH>>
T_ctl3     == <<SOH, SOH, SOH>>
T_x        == <<"X">>
T_longmeta == Rep("a", TitleLimit + 1)
T_longtoc  == Rep("b", TextLimit + 1)

\* metadata titles; <<>> is an absent title
MetaTitles == {<<>>, T_annual, T_mydoc, T_abc, T_ctl4}

NativeLevels == 0..7
NativePages == 0..(MaxPages + 1)

\* native outlines: none; the scenario of three entries; levels and pages
\* outside their ranges; titles that cleaning empties; a root that is no
\* title
Tocs ==
    { <<>>,
      << <<1, T_intro, 1>>, <<3, T_deep, 2>>, <<2, T_back, 2>> >>,
      << <<1, T_x, 1>>, <<2, T_ctl3, 1>> >>,
      << <<1, T_page5, 1>>, <<2, T_deep, 1>> >> }
    \cup { << <<l, T_intro, 1>> >> : l \in NativeLevels }
    \cup { << <<1, T_intro, p>> >> : p \in NativePages }
    \cup { << <<0, T_intro, 0>> >>, << <<7, T_intro, MaxPages + 1>> >> }

Span(t, size, flags, y) == [text |-> t, size |-> size, flags |-> flags, y |-> y]

\* pages: no span; a title over a byline, lower span first; a bold span of
\* control characters; numbered headings with a duplicate; bold headings
\* that hold ignore-words; body text and a blank span
P_empty == <<>>
P_exec  == << Span(T_by, 10, 0, 90), Span(T_exec, 24, 16, 50) >>
P_ctl   == << Span(T_ctl3, 12, 16, 10) >>
P_nums  == << Span(T_num3, 12, 0, 30), Span(T_one, 12, 0, 20),
              Span(T_one_lc, 12, 0, 40) >>
P_bold  == << Span(T_chapter, 12, 16, 10), Span(T_section, 12, 16, 20),
              Span(T_appendix, 12, 16, 30) >>
P_body  == << Span(T_body, 12, 0, 100), Span(T_blank, 12, 0, 5) >>

PagePool == {P_empty, P_exec, P_ctl, P_nums, P_bold, P_body}

PageLists(n) == [1..n -> PagePool]

Docs(n) == [meta : MetaTitles, toc : Tocs, pages : PageLists(n),
            faults : {NoFaults}]

\* documents whose metadata title or bookmark title is longer than the
\* validator allows
LongDocs ==
    { [meta |-> m, toc |-> t, pages |-> <<pg>>, faults |-> NoFaults] :
        m \in {<<>>, T_longmeta},
        t \in {<<>>, << <<1, T_longtoc, 1>> >>, << <<2, T_intro, 1>> >>},
        pg \in {P_empty, P_exec} }

NoDoc == [meta |-> <<>>, toc |-> <<>>, pages |-> <<>>, faults |-> NoFaults]

\* a metadata title of four characters that cleaning makes three
T_a_b == <<"A", " ", " ", "b">>
T_lower == <<"e","x","e","c","u","t","i","v","e"," ","s","u","m","m","a","r","y">>

\* first pages: two candidates of one score; a lesser candidate before
\* the best one and its equal; a span that is no likely title
P_tie   == << Span(T_exec, 14, 0, 50), Span(T_annual, 14, 0, 50) >>
P_tie3  == << Span(T_deep, 14, 0, 50), Span(T_annual, 14, 0, 50),
              Span(T_exec, 14, 0, 50) >>
P_lower == << Span(T_lower, 14, 0, 50) >>

\* documents for the metadata and first-page strategies
EdgeDocs ==
    { [meta |-> m, toc |-> <<>>, pages |-> <<pg>>, faults |-> NoFaults] :
        m \in {<<>>, T_a_b}, pg \in {P_tie, P_tie3, P_lower, P_exec} }

\* a page with a malformed span between two good ones
P_badspan == << Span(T_exec, 24, 16, 50), Span(Malformed, 12, 0, 60),
                Span(T_one, 12, 0, 70) >>

\* what the engine raises: nothing, one operation, or every one
FaultSets ==
    { NoFaults,
      [NoFaults EXCEPT !.metadata = TRUE],
      [NoFaults EXCEPT !.get_toc = TRUE],
      [open |-> FALSE, metadata |-> TRUE, get_toc |-> TRUE,
       page |-> 1..MaxPages, get_text |-> 1..MaxPages] }
    \cup { [NoFaults EXCEPT !.page = {k}] : k \in 1..MaxPages }
    \cup { [NoFaults EXCEPT !.get_text = {k}] : k \in 1..MaxPages }

\* native outlines with an entry that is no triple
FaultTocs ==
    { <<>>,
      << <<1, T_intro, 1>>, <<2, T_deep, 1>> >>,
      << <<1, T_intro, 1>>, <<2, T_deep>>, <<2, T_back, 1>> >>,
      << <<1, T_intro>>, <<2, T_deep, 1>> >> }

\* documents the engine fails on
FaultDocs ==
    [meta : {T_annual}, toc : FaultTocs,
     pages : [1..MaxPages -> {P_nums, P_exec, P_badspan}], faults : FaultSets]

\* the documents of a concurrent batch
ConcDocs ==
    { [meta |-> <<>>, toc |-> <<>>, pages |-> <<P_nums>>, faults |-> NoFaults],
      [meta |-> <<>>, toc |-> <<>>, pages |-> <<P_bold>>, faults |-> NoFaults],
      [meta |-> T_annual,
       toc |-> << <<1, T_intro, 1>>, <<3, T_deep, 2>>, <<2, T_back, 2>> >>,
       pages |-> <<P_empty, P_exec>>, faults |-> NoFaults],
      NoDoc }

\* raw outlines for the normaliser: every level; texts that differ in
\* case only, and pages, so that keys repeat and page order is upset
RawKeys == { <<<<"A","b">>, 1>>, <<<<"a","b">>, 1>>, <<<<"c","d">>, 1>>,
             <<<<"A","b">>, 2>>, <<<<"c","d">>, 2>> }
RawItems == { [level |-> H(n), text |-> k[1], page |-> k[2]] :
                n \in MinLevel..MaxLevel, k \in RawKeys }
RawOutlines(n) == [1..n -> RawItems]

(***************************************************************************)
(* JSONValidator: what process_single_pdf asks of a result before it       *)
(* writes it.  A result of the extractors is always a dictionary with a    *)
(* string title and a list of items with a string text and an integer      *)
(* page, so the type tests of the validator pass and are left out.         *)
(***************************************************************************)
valid_levels == {H(n) : n \in MinLevel..MaxLevel}

\* "Title can be empty": only the length is limited
validate_title(t) == Len(t) <= TitleLimit

validate_outline_item(item) ==
    /\ item.level \in valid_levels
    /\ Len(Strip(item.text)) # 0
    /\ Len(item.text) <= TextLimit
    /\ item.page >= 1

\* "Empty outline is valid": the quantifier is true of the empty list
validate_outline(o) == \A i \in DOMAIN o : validate_outline_item(o[i])

validate(data) == validate_title(data.title) /\ validate_outline(data.outline)

\* documents for the largest-font scan: no metadata title, no bookmarks,
\* and on page 1 only spans the first-page scoring rejects (an ignore word,
\* or a lower-case start).  "Index" is the largest span of page 1 and has
\* exactly FontScanMinLen characters; P_big is larger than all of P_fonts.
T_index == <<"I","n","d","e","x">>
P_fonts == << Span(T_index, 40, 0, 10), Span(T_by, 36, 0, 15),
              Span(T_chapter, 12, 0, 20), Span(T_section, 18, 0, 30),
              Span(T_appendix, 18, 0, 40) >>
P_big   == << Span(T_annual, 30, 0, 10) >>

FontDocs ==
    { [meta |-> <<>>, toc |-> <<>>, pages |-> pp, faults |-> NoFaults] :
        pp \in { <<P_fonts>>,
                 <<P_fonts, P_body, P_big>>,
                 <<P_fonts, P_body, P_empty, P_big>> } }

\* Unopenable: a file with the content of a report that fitz.open refuses
Unopenable ==
    [meta |-> T_annual, toc |-> <<>>, pages |-> <<P_exec>>,
     faults |-> [NoFaults EXCEPT !.open = TRUE]]

(***************************************************************************)
(* The state machine.  A worker thread runs process_single_pdf on its      *)
(* document: process_pdf opens it, extract_title tries its strategies,     *)
(* extract_outline tries bookmarks, then content; the result is returned.  *)
(* The one PDFProcessor is shared; what a call keeps is local to the call. *)
(***************************************************************************)
\* one frame for all the calls: current_level kept on the shared extractor
FrameShared(w) == 1

\* the frame that holds the locals of worker w's call of _fix_hierarchy
FrameOf(w) == w

TypeOK ==
    /\ pc \in [Workers -> {"idle", "submitted", "metadata", "outline",
                           "first_page", "font_size", "bookmarks",
                           "content_begin", "content", "fix", "return",
                           "done", "failed", "raised"}]
    /\ pageNum \in [Workers -> 0..(MaxPages + 1)]
    /\ fixIdx \in [Workers -> Nat]
    /\ frames \in [Workers -> [current_level : MinLevel..MaxLevel]]
    /\ nphase \in {"off", "raw", "once", "twice"}
    /\ status \in [Workers -> {"none", "success", "error"}]

Blank ==
    /\ title = [w \in Workers |-> None]
    /\ ran = [w \in Workers |-> <<>>]
    /\ outline = [w \in Workers |-> <<>>]
    /\ pageNum = [w \in Workers |-> 0]
    /\ fixIdx = [w \in Workers |-> 0]
    /\ frames = [f \in Workers |-> [current_level |-> InitialLevel]]
    /\ result = [w \in Workers |-> None]
    /\ status = [w \in Workers |-> "none"]

NormOff ==
    nraw = <<>> /\ nmid = <<>> /\ nout = <<>> /\ nout2 = <<>> /\ nphase = "off"

\* no call of detect_heading_level is under way
NoProbe == [text |-> <<>>, font_size |-> 0, flags |-> 0,
            avg_font_size |-> <<DefaultAvgSize, 1>>, level |-> None,
            phase |-> "off"]

ProbeOff == probe = NoProbe

\* one document is submitted
Init ==
    /\ pc = [w \in Workers |-> IF w = 1 THEN "submitted" ELSE "idle"]
    /\ \E d \in LongDocs \cup EdgeDocs \cup FaultDocs \cup FontDocs
                \cup {Unopenable}
                \cup UNION {Docs(n) : n \in 0..MaxPages} :
          doc = [w \in Workers |-> IF w = 1 THEN d ELSE NoDoc]
    /\ Blank
    /\ NormOff
    /\ ProbeOff

\* every worker is submitted a document
InitConc ==
    /\ pc = [w \in Workers |-> "submitted"]
    /\ doc \in [Workers -> ConcDocs]
    /\ Blank
    /\ NormOff
    /\ ProbeOff

\* process_pdf lines 39-44: the document is opened and validated
Open(w) ==
    /\ pc[w] = "submitted"
    /\ IF IsInvalid(doc[w])
       THEN /\ result' = [result EXCEPT ![w] = EmptyResult]
            /\ pc' = [pc EXCEPT ![w] = "failed"]
       ELSE /\ pc' = [pc EXCEPT ![w] = Strategies[1]]
            /\ UNCHANGED result
    /\ UNCHANGED <<doc, title, ran, outline, pageNum, fixIdx, frames,
                   nraw, nmid, nout, nout2, nphase, probe, status>>

\* extract_title: strategy `name` runs; its title is returned when truthy,
\* else the next strategy is tried, and "" is returned after the last
TryStrategy(w, name) ==
    LET t == RunStrategy(name, doc[w])
        k == CHOOSE i \in DOMAIN Strategies : Strategies[i] = name
    IN  /\ pc[w] = name
        /\ ran' = [ran EXCEPT ![w] = Append(@, name)]
        /\ result' = (IF t = Raised THEN [result EXCEPT ![w] = EmptyResult]
                       ELSE result)
        /\ IF t = Raised
           THEN \* the handler of process_pdf (lines 61-67) would get it
                /\ pc' = [pc EXCEPT ![w] = "raised"]
                /\ UNCHANGED title
           ELSE IF Truthy(t)
           THEN /\ title' = [title EXCEPT ![w] = t]
                /\ pc' = [pc EXCEPT ![w] = "bookmarks"]
           ELSE IF k = Len(Strategies)
           THEN /\ title' = [title EXCEPT ![w] = NoTitle]
                /\ pc' = [pc EXCEPT ![w] = "bookmarks"]
           ELSE /\ pc' = [pc EXCEPT ![w] = Strategies[k + 1]]
                /\ UNCHANGED title
        /\ UNCHANGED <<doc, outline, pageNum, fixIdx, frames,
                       nraw, nmid, nout, nout2, nphase, probe, status>>

StrategyMetadata(w)  == TryStrategy(w, "metadata")
StrategyOutline(w)   == TryStrategy(w, "outline")
StrategyFirstPage(w) == TryStrategy(w, "first_page")
StrategyFontSize(w)  == TryStrategy(w, "font_size")

\* extract_outline lines 51-54: the bookmark strategy
OutlineBookmarks(w) ==
    LET bookmarks == extract_from_bookmarks(doc[w])
    IN  /\ pc[w] = "bookmarks"
        /\ ran' = [ran EXCEPT ![w] = Append(@, "bookmarks")]
        /\ IF BookmarksWin(bookmarks)
           THEN /\ outline' = [outline EXCEPT ![w] = bookmarks]
                /\ pc' = [pc EXCEPT ![w] = "return"]
           ELSE /\ pc' = [pc EXCEPT ![w] = "content_begin"]
                /\ UNCHANGED outline
        /\ UNCHANGED <<doc, title, pageNum, fixIdx, frames, result,
                       nraw, nmid, nout, nout2, nphase, probe, status>>

\* _extract_from_content lines 103-107: the content strategy starts
ContentBegin(w) ==
    /\ pc[w] = "content_begin"
    /\ ran' = [ran EXCEPT ![w] = Append(@, "content")]
    /\ outline' = [outline EXCEPT ![w] = <<>>]
    /\ pageNum' = [pageNum EXCEPT ![w] = 0]
    /\ pc' = [pc EXCEPT ![w] = "content"]
    /\ UNCHANGED <<doc, title, fixIdx, frames, result, nraw, nmid, nout, nout2, nphase, probe, status>>

\* lines 107-110: the headings of the next page are appended
ContentPage(w) ==
    /\ pc[w] = "content"
    /\ pageNum[w] < page_count(doc[w])
    /\ IF (pageNum[w] + 1) \in doc[w].faults.page
       THEN \* line 108 raises; the handler of line 117 returns []
            /\ outline' = [outline EXCEPT ![w] = <<>>]
            /\ pc' = [pc EXCEPT ![w] = "return"]
            /\ UNCHANGED pageNum
       ELSE /\ outline' = [outline EXCEPT ![w] =
                  @ \o find_headings_on_page(doc[w], pageNum[w] + 1)]
            /\ pageNum' = [pageNum EXCEPT ![w] = @ + 1]
            /\ UNCHANGED pc
    /\ UNCHANGED <<doc, title, ran, fixIdx, frames, result,
                   nraw, nmid, nout, nout2, nphase, probe, status>>

\* _refine_outline lines 211-225 and _fix_hierarchy lines 234-242: an empty
\* outline is returned as it is; else duplicates go, the items are sorted
\* and the level repair starts at current_level = 1
RefineBegin(w) ==
    /\ pc[w] = "content"
    /\ pageNum[w] = page_count(doc[w])
    /\ IF outline[w] = <<>>
       THEN /\ pc' = [pc EXCEPT ![w] = "return"]
            /\ UNCHANGED <<outline, fixIdx, frames>>
       ELSE /\ outline' = [outline EXCEPT ![w] = DedupeAndSort(@)]
            /\ fixIdx' = [fixIdx EXCEPT ![w] = 1]
            /\ frames' = [frames EXCEPT ![FrameOf(w)].current_level = InitialLevel]
            /\ pc' = [pc EXCEPT ![w] = "fix"]
    /\ UNCHANGED <<doc, title, ran, pageNum, result, nraw, nmid, nout, nout2, nphase, probe, status>>

\* _fix_hierarchy lines 244-252: one iteration of the loop
FixStep(w) ==
    LET i == fixIdx[w]
        level_num == ClampLevel(LevelNum(outline[w][i].level),
                                frames[FrameOf(w)].current_level)
    IN  /\ pc[w] = "fix"
        /\ i <= Len(outline[w])
        /\ outline' = [outline EXCEPT ![w][i].level = H(level_num)]
        /\ frames' = [frames EXCEPT ![FrameOf(w)].current_level = level_num]
        /\ fixIdx' = [fixIdx EXCEPT ![w] = i + 1]
        /\ UNCHANGED <<pc, doc, title, ran, pageNum, result,
                       nraw, nmid, nout, nout2, nphase, probe, status>>

\* line 254: the loop is over
FixDone(w) ==
    /\ pc[w] = "fix"
    /\ fixIdx[w] > Len(outline[w])
    /\ pc' = [pc EXCEPT ![w] = "return"]
    /\ UNCHANGED <<doc, title, ran, outline, pageNum, fixIdx, frames, result,
                   nraw, nmid, nout, nout2, nphase, probe, status>>

\* process_pdf lines 53-59: the result is constructed and returned
Return(w) ==
    /\ pc[w] = "return"
    /\ result' = [result EXCEPT ![w] = [title |-> title[w], outline |-> outline[w]]]
    /\ pc' = [pc EXCEPT ![w] = "done"]
    /\ UNCHANGED <<doc, title, ran, outline, pageNum, fixIdx, frames,
                   nraw, nmid, nout, nout2, nphase, probe, status>>

\* process_single_pdf lines 63-89: process_pdf has returned its result
\* (the empty one when it caught an exception); the result is validated,
\* written, and the status of the file is recorded
Record(w) ==
    /\ pc[w] \in {"done", "failed", "raised"}
    /\ status[w] = "none"
    /\ status' = [status EXCEPT ![w] = IF validate(result[w]) THEN "success"
                                       ELSE "error"]
    /\ UNCHANGED <<pc, doc, title, ran, outline, pageNum, fixIdx, frames,
                   result, nraw, nmid, nout, nout2, nphase, probe>>

\* process_all_pdfs lines 128-129: the counts of the summary
successful == Cardinality({w \in Workers : status[w] = "success"})
errors == Cardinality({w \in Workers : status[w] = "error"})

Next ==
    \/ \E w \in Workers : Open(w)
    \/ \E w \in Workers : StrategyMetadata(w)
    \/ \E w \in Workers : StrategyOutline(w)
    \/ \E w \in Workers : StrategyFirstPage(w)
    \/ \E w \in Workers : StrategyFontSize(w)
    \/ \E w \in Workers : OutlineBookmarks(w)
    \/ \E w \in Workers : ContentBegin(w)
    \/ \E w \in Workers : ContentPage(w)
    \/ \E w \in Workers : RefineBegin(w)
    \/ \E w \in Workers : FixStep(w)
    \/ \E w \in Workers : FixDone(w)
    \/ \E w \in Workers : Return(w)
    \/ \E w \in Workers : Record(w)

Spec == Init /\ [][Next]_vars

SpecConc == InitConc /\ [][Next]_vars

(***************************************************************************)
(* The normaliser alone: _refine_outline applied to a raw outline, and     *)
(* again to what it returned.                                              *)
(***************************************************************************)
InitNorm ==
    /\ pc = [w \in Workers |-> "idle"]
    /\ doc = [w \in Workers |-> NoDoc]
    /\ Blank
    /\ ProbeOff
    /\ \E n \in 0..MaxRaw : nraw \in RawOutlines(n)
    /\ nmid = <<>>
    /\ nout = <<>>
    /\ nout2 = <<>>
    /\ nphase = "raw"

Refine ==
    /\ nphase = "raw"
    /\ nmid' = (IF nraw = <<>> THEN <<>> ELSE DedupeAndSort(nraw))
    /\ nout' = refine_outline(nraw)
    /\ nphase' = "once"
    /\ UNCHANGED <<pc, doc, title, ran, outline, pageNum, fixIdx, frames,
                   result, nraw, nout2, probe, status>>

RefineAgain ==
    /\ nphase = "once"
    /\ nout2' = refine_outline(nout)
    /\ nphase' = "twice"
    /\ UNCHANGED <<pc, doc, title, ran, outline, pageNum, fixIdx, frames,
                   result, nraw, nmid, nout, probe, status>>

NextNorm == Refine \/ RefineAgain

SpecNorm == InitNorm /\ [][NextNorm]_vars

(***************************************************************************)
(* The classifier alone: one call of detect_heading_level.                 *)
(***************************************************************************)
T_overview  == <<"1",".","1"," ","O","v","e","r","v","i","e","w">>
T_chapter3  == <<"C","h","a","p","t","e","r"," ","3">>
T_random    == <<"R","a","n","d","o","m"," ","t","e","x","t">>
T_1section  == <<"1"," ","S","e","c","t","i","o","n">>
T_2chapter  == <<"1",".","1"," ","C","h","a","p","t","e","r">>
T_roman     == <<"I","V"," ","S","e","c","t","i","o","n">>
T_letter    == <<"A","."," ","C","h","a","p","t","e","r">>
T_subsect   == <<"S","u","b","s","e","c","t","i","o","n"," ","o","v","e","r","v","i","e","w">>
T_subsectlc == <<"a"," ","s","u","b","s","e","c","t","i","o","n">>
T_partsub   == <<"P","a","r","t"," ","s","u","b","s","e","c","t","i","o","n">>

ProbeTexts == {T_overview, T_chapter3, T_random, T_num3, T_1section,
               T_2chapter, T_roman, T_letter, T_subsect, T_subsectlc,
               T_partsub, T_section, T_body}
ProbeSizes == {12, 15, 18, 24}
ProbeFlags == {0, BoldBit}
\* average sizes 12, 0 and 12.5, as <<total, count>>
ProbeAverages == {<<12, 1>>, <<0, 1>>, <<25, 2>>}

InitLevel ==
    /\ pc = [w \in Workers |-> "idle"]
    /\ doc = [w \in Workers |-> NoDoc]
    /\ Blank
    /\ NormOff
    /\ probe \in [text : ProbeTexts, font_size : ProbeSizes, flags : ProbeFlags,
                  avg_font_size : ProbeAverages, level : {None},
                  phase : {"args"}]

Classify ==
    /\ probe.phase = "args"
    /\ probe' = [probe EXCEPT
          !.level = detect_heading_level(probe.text, probe.font_size,
                                         probe.flags, probe.avg_font_size),
          !.phase = "done"]
    /\ UNCHANGED <<pc, doc, title, ran, outline, pageNum, fixIdx, frames,
                   result, nraw, nmid, nout, nout2, nphase, status>>

NextLevel == Classify

SpecLevel == InitLevel /\ [][NextLevel]_vars

(***************************************************************************)
(* Properties                                                              *)
(***************************************************************************)
\* the level ordinal of an item: the n of its tag hn
LevelOrdinal(item) == item.level[2]

\* no item is more than one level deeper than the item before it
DepthRule(items) ==
    \A i \in 1..(Len(items) - 1) :
        LevelOrdinal(items[i + 1]) <= LevelOrdinal(items[i]) + 1

Returned(w) == pc[w] = "done"

\* C1: whatever raw outline (levels h1..h6, any pages, any texts) the
\* hierarchy normaliser is given, in what it returns no item is more than
\* one level deeper than the item before it.
C1_LevelMonotonic ==
    nphase \in {"once", "twice"} => DepthRule(nout)

\* a raw outline with a jump of more than one level has been normalised
C1_Witness ==
    /\ nphase = "once"
    /\ Len(nout) = MaxRaw
    /\ ~DepthRule(nraw)
    /\ \E i \in 1..Len(nout) : nout[i].level # nraw[i].level

\* C2: every outline extract_outline returns, the bookmark-derived ones
\* too, obeys the depth rule; the native outline (1,Intro,1),
\* (3,Deep Dive,2), (2,Background,2) yields the levels h1, h2, h2.
C2_DepthRuleAlways ==
    \A w \in Workers :
        Returned(w) =>
            /\ DepthRule(result[w].outline)
            /\ doc[w].toc = << <<1, T_intro, 1>>, <<3, T_deep, 2>>, <<2, T_back, 2>> >>
                 => [i \in 1..3 |-> result[w].outline[i].level] = <<H(1), H(2), H(2)>>

\* C3: the hierarchy normaliser is idempotent: applied to what it returned,
\* it returns the same sequence (items, order, levels, texts and pages).
C3_Idempotent ==
    nphase = "twice" => nout2 = nout

\* the normaliser changed the raw outline the first time (it dropped a
\* duplicate, reordered or clamped a level) and has been applied again
C3_Witness ==
    /\ nphase = "twice"
    /\ Len(nraw) = MaxRaw
    /\ Len(nout) < Len(nraw)
    /\ \E i \in 1..Len(nout) : nout[i].level # DedupeAndSort(nraw)[i].level

\* C4: when the bookmark strategy yields at least one item the content
\* strategy is never run and the outline returned is the bookmark outline;
\* the content strategy runs only after the bookmark strategy has returned
\* an empty sequence.
C4_BookmarkPriority ==
    \A w \in Workers :
        LET bookmarks == extract_from_bookmarks(doc[w])
            at(name) == {i \in 1..Len(ran[w]) : ran[w][i] = name}
        IN  /\ at("content") # {} =>
                 /\ bookmarks = <<>>
                 /\ \E i \in at("bookmarks") : \A j \in at("content") : i < j
            /\ bookmarks # <<>> /\ Returned(w) =>
                 /\ at("content") = {}
                 /\ result[w].outline = bookmarks

\* a bookmark outline was returned for a document whose pages hold
\* headings the content strategy would have returned
C4_Witness ==
    \E w \in Workers :
        /\ Returned(w)
        /\ extract_from_bookmarks(doc[w]) # <<>>
        /\ extract_from_content(doc[w]) # <<>>
        /\ result[w].outline = extract_from_bookmarks(doc[w])

\* the title strategies worker w has run, in the order it ran them
TitleRan(w) ==
    SelectSeq(ran[w],
              LAMBDA n : n \in {"metadata", "outline", "first_page", "font_size"})

\* extract_title has returned
TitleReturned(w) ==
    pc[w] \in {"bookmarks", "content_begin", "content", "fix", "return", "done"}

\* what the k-th of the four strategies yields on document d, in the
\* order metadata, outline root, first-page scoring, largest-font scan
Yield(d, k) ==
    CASE k = 1 -> extract_from_metadata(d)
      [] k = 2 -> extract_from_outline(d)
      [] k = 3 -> extract_from_first_page(d)
      [] k = 4 -> extract_by_font_size(d)

NonEmptyText(t) == t # None /\ t # <<>>

\* C5: extract_title tries metadata, outline root, first-page scoring and
\* largest-font scan strictly in this order and returns what the first
\* strategy with a non-empty string yields, running no later strategy; so
\* a metadata title that qualifies (cleaned length > 3) is returned,
\* cleaned, whatever the native outline and the pages hold.
C5_TitleShortCircuit ==
    \A w \in Workers :
        LET d == doc[w]
            n == Len(TitleRan(w))
            order == <<"metadata", "outline", "first_page", "font_size">>
            last == Yield(d, n)   \* what the last strategy that ran yields
        IN  /\ n <= 4 /\ TitleRan(w) = SubSeq(order, 1, n)
            /\ \A k \in 1..(n - 1) : ~NonEmptyText(Yield(d, k))
            /\ TitleReturned(w) =>
                 /\ n >= 1
                 /\ \/ NonEmptyText(last) /\ title[w] = last
                    \/ ~NonEmptyText(last) /\ n = 4 /\ title[w] = <<>>
                 /\ (~d.faults.metadata /\ Len(clean_text(d.meta)) > 3) =>
                      /\ title[w] = clean_text(d.meta)
                      /\ TitleRan(w) = <<"metadata">>

\* the cleaned metadata title was returned though the outline root and the
\* first page would each have given a title too
C5_Witness ==
    \E w \in Workers :
        /\ Returned(w)
        /\ result[w].title = clean_text(doc[w].meta)
        /\ result[w].title # doc[w].meta
        /\ NonEmptyText(extract_from_outline(doc[w]))
        /\ NonEmptyText(extract_from_first_page(doc[w]))
        /\ TitleRan(w) = <<"metadata">>

\* at least one page, no metadata title, no native outline, no span
IsEmptyDocument(d) ==
    /\ page_count(d) >= 1
    /\ d.meta = <<>>
    /\ d.toc = <<>>
    /\ \A k \in 1..page_count(d) : d.pages[k] = <<>>

\* C6: a document of at least one page with no metadata title, no native
\* outline and no text span gives exactly {title: "", outline: []}; and
\* whenever all four title strategies fail the title is the empty string,
\* and no error is raised.
C6_EmptyResult ==
    \A w \in Workers :
        /\ IsEmptyDocument(doc[w]) => pc[w] # "failed"
        /\ Returned(w) /\ IsEmptyDocument(doc[w]) =>
              result[w] = [title |-> <<>>, outline |-> <<>>]
        /\ Returned(w) /\ (\A k \in 1..4 : ~NonEmptyText(Yield(doc[w], k))) =>
              result[w].title = <<>>

\* an empty document of two pages went through all four title strategies
\* and both outline strategies, and its result was returned
C6_Witness ==
    \E w \in Workers :
        /\ Returned(w)
        /\ IsEmptyDocument(doc[w])
        /\ page_count(doc[w]) = MaxPages
        /\ Len(TitleRan(w)) = 4
        /\ ran[w][Len(ran[w])] = "content"

\* C7: the text of every item of every outline extract_outline returns is
\* non-empty after trimming, whatever the span texts and bookmark titles.
C7_TextNonEmpty ==
    \A w \in Workers :
        Returned(w) =>
            \A i \in 1..Len(result[w].outline) :
                Strip(result[w].outline[i].text) # <<>>

\* C8: in every result the title has at most 500 characters and every
\* outline text at most 1000, whatever the lengths of the metadata title
\* and of the bookmark titles.
C8_LengthBounds ==
    \A w \in Workers :
        pc[w] \in {"done", "failed"} =>
            /\ Len(result[w].title) <= TitleLimit
            /\ \A i \in 1..Len(result[w].outline) :
                   Len(result[w].outline[i].text) <= TextLimit

\* C9: every item of every outline extract_outline returns has a level
\* among h1..h6 and a page between 1 and the page count, whatever the
\* native levels and pages, and for content-derived headings too.
C9_LevelAndPageRange ==
    \A w \in Workers :
        Returned(w) =>
            \A i \in 1..Len(result[w].outline) :
                /\ result[w].outline[i].level \in {<<"h", n>> : n \in 1..6}
                /\ 1 <= result[w].outline[i].page
                /\ result[w].outline[i].page <= page_count(doc[w])

\* a bookmark item was returned whose native level is above 6 and whose
\* native page is beyond the last page
C9_Witness ==
    \E w \in Workers :
        /\ Returned(w)
        /\ Len(doc[w].toc) = 1
        /\ doc[w].toc[1][1] > 6
        /\ doc[w].toc[1][3] > page_count(doc[w])
        /\ Len(result[w].outline) = 1

\* C10: the workers run process_pdf concurrently on the shared processor;
\* under every interleaving the result of each document is the result of
\* processing it alone, and the current_level a worker reads in the level
\* repair is the one it wrote itself.
C10_Reentrant ==
    \A w \in Workers :
        /\ pc[w] \in {"done", "failed"} => result[w] = process_pdf(doc[w])
        /\ pc[w] = "fix" =>
              frames[w].current_level =
                 IF fixIdx[w] = 1 THEN 1
                 ELSE LevelOrdinal(outline[w][fixIdx[w] - 1])

\* two workers are both in the middle of the level repair, each having
\* repaired an item and having more to repair, at different levels
C10_Witness ==
    \E v, w \in Workers :
        /\ v # w
        /\ pc[v] = "fix" /\ pc[w] = "fix"
        /\ fixIdx[v] > 1 /\ fixIdx[v] <= Len(outline[v])
        /\ fixIdx[w] > 1 /\ fixIdx[w] <= Len(outline[w])
        /\ frames[v].current_level # frames[w].current_level

\* the levels the keywords contained in a lower-cased text stand for
KeywordLevels(text_lower) ==
    { kl[2] : kl \in { x \in { <<W_chapter, 1>>, <<W_part, 1>>, <<W_section, 2>>,
                               <<W_subsection, 3>> } :
                       Contains(text_lower, x[1]) } }

\* the level of the font-size rule: ratio >= 1.8, 1.5, 1.2, else h4
RatioLevel(font_size, avg) ==
    LET ge(tenths) == IF avg[1] > 0 THEN 10 * font_size * avg[2] >= tenths * avg[1]
                      ELSE 10 >= tenths
    IN  IF ge(18) THEN 1 ELSE IF ge(15) THEN 2 ELSE IF ge(12) THEN 3 ELSE 4

\* C12: detect_heading_level returns the level of the first rule that
\* matches, in the order x.y.z (h3), x.y (h2), leading integer (h1), leading
\* roman numeral (h1), capital letter and period (h2), a keyword contained,
\* font-size ratio; an earlier rule wins whatever keywords and sizes are;
\* "1.1 Overview" is h2, "Chapter 3" is h1, "Random text" at ratio 2.0 is
\* h1; equal arguments give equal levels.
C12_FirstRuleWins ==
    probe.phase = "done" =>
        LET t == probe.text
            level == probe.level
        IN  /\ IF MatchNum3(t) THEN level = H(3)
               ELSE IF MatchNum2(t) THEN level = H(2)
               ELSE IF MatchNum1(t) THEN level = H(1)
               ELSE IF MatchRoman(t) THEN level = H(1)
               ELSE IF MatchLetterDot(t) THEN level = H(2)
               ELSE IF KeywordLevels(Lower(t)) # {}
                    THEN level[1] = "h" /\ level[2] \in KeywordLevels(Lower(t))
               ELSE level = H(RatioLevel(probe.font_size, probe.avg_font_size))
            /\ t = T_overview => level = H(2)
            /\ t = T_chapter3 => level = H(1)
            /\ (t = T_random /\ probe.font_size = 24
                  /\ probe.avg_font_size = <<12, 1>>) => level = H(1)
            /\ level = detect_heading_level(t, probe.font_size, probe.flags,
                                            probe.avg_font_size)

\* a numbered text that holds a keyword of another level was classified by
\* its numbering
C12_Witness ==
    /\ probe.phase = "done"
    /\ probe.text = T_2chapter
    /\ probe.font_size = 24
    /\ probe.level = H(2)

\* C14: a text that no numbering rule matches and that contains
\* "subsection" but neither "chapter" nor "part" is h3 for every font size
\* and average.
C14_SubsectionIsH3 ==
    probe.phase = "done" =>
        LET t == probe.text
        IN  ( /\ ~MatchNum3(t) /\ ~MatchNum2(t) /\ ~MatchNum1(t)
              /\ ~MatchRoman(t) /\ ~MatchLetterDot(t)
              /\ Contains(Lower(t), W_subsection)
              /\ ~Contains(Lower(t), W_chapter)
              /\ ~Contains(Lower(t), W_part) )
            => probe.level = H(3)

\* the engine raises, or hands out something unusable, in the k-th title
\* strategy on document d
StrategyFaulted(d, k) ==
    CASE k = 1 -> d.faults.metadata
      [] k = 2 -> d.faults.get_toc \/ (d.toc # <<>> /\ IsMalformedEntry(d.toc[1]))
      [] k = 3 -> page_count(d) >= 1 /\ (1 \in d.faults.page \/ 1 \in d.faults.get_text)
      [] k = 4 -> FALSE

\* C11: no failure of the parsing engine (metadata, get_toc, page access,
\* get_text) gets out of extract_title or extract_outline: extract_title
\* always returns a string and extract_outline a list, and a title
\* strategy that failed lets the next one run.
C11_NoFaultPropagates ==
    \A w \in Workers :
        LET d == doc[w]
            order == <<"metadata", "outline", "first_page", "font_size">>
        IN  /\ pc[w] # "raised"
            /\ pc[w] = "failed" => IsInvalid(d)
            /\ TitleReturned(w) => title[w] \notin {None, Raised}
            /\ Returned(w) =>
                 /\ result[w].title = title[w]
                 /\ result[w].outline \in Seq({it \in Range(result[w].outline) : TRUE})
            /\ \A k \in 1..3 :
                 (StrategyFaulted(d, k) /\ Len(TitleRan(w)) >= k)
                    => (pc[w] = order[k + 1] \/ Len(TitleRan(w)) > k)
            /\ (d.faults.get_toc /\ "bookmarks" \in Range(ran[w]))
                 => (pc[w] = "content_begin" \/ "content" \in Range(ran[w]))

\* every operation of the engine raised, every strategy ran and the empty
\* title and outline were returned
C11_Witness ==
    \E w \in Workers :
        /\ Returned(w)
        /\ doc[w].faults.metadata /\ doc[w].faults.get_toc
        /\ doc[w].faults.page = 1..MaxPages
        /\ ran[w] = <<"metadata", "outline", "first_page", "font_size",
                      "bookmarks", "content">>
        /\ result[w] = [title |-> <<>>, outline |-> <<>>]

\* the metadata strategy returned the title
MetaAccepted(w) == TitleRan(w) = <<"metadata">> /\ TitleReturned(w)

\* C13: the metadata strategy accepts the metadata title if and only if
\* its cleaned form is longer than 3; a title of raw length over 3 whose
\* cleaned length is 3 or less is not returned.
C13_MetadataCleanedLength ==
    \A w \in Workers :
        ("metadata" \in Range(ran[w]) /\ ~doc[w].faults.metadata)
            => (MetaAccepted(w) <=> Len(clean_text(doc[w].meta)) > 3)

\* the items of the entries of a native outline that can be read and
\* whose cleaned title has two characters or more, in native order
SurvivingEntries(d) ==
    Concat([i \in 1..Len(d.toc) |->
              IF IsMalformedEntry(d.toc[i]) THEN <<>>
              ELSE IF Len(clean_text(d.toc[i][2])) < 2 THEN <<>>
              ELSE << [level |-> H(IF d.toc[i][1] < 1 THEN 1
                                   ELSE IF d.toc[i][1] > 6 THEN 6
                                   ELSE d.toc[i][1]),
                       text  |-> clean_text(d.toc[i][2]),
                       page  |-> IF d.toc[i][3] > page_count(d) THEN page_count(d)
                                 ELSE IF d.toc[i][3] < 1 THEN 1
                                 ELSE d.toc[i][3]] >>])

\* C15: a malformed entry of the native outline is skipped and every other
\* entry whose cleaned title has at least 2 characters is still emitted,
\* in native order; one malformed entry never empties the bookmark
\* outline.
C15_MalformedEntrySkipped ==
    \A w \in Workers :
        LET d == doc[w]
        IN  ( /\ Returned(w)
              /\ d.faults = NoFaults
              /\ \E i \in 1..Len(d.toc) : IsMalformedEntry(d.toc[i])
              /\ SurvivingEntries(d) # <<>> )
            => /\ "content" \notin Range(ran[w])
               /\ result[w].outline = SurvivingEntries(d)

\* page k of document d cannot be obtained or processed
PageFails(d, k) ==
    \/ k \in d.faults.page
    \/ k \in d.faults.get_text
    \/ \E i \in 1..Len(d.pages[k]) : d.pages[k][i].text = Malformed

\* C16: in content-based extraction a failure on page k makes page k
\* contribute no item, and the headings of every other page are still in
\* the returned outline; one page never aborts the extraction.
C16_PageFailureIsLocal ==
    \A w \in Workers :
        LET d == doc[w]
        IN  (Returned(w) /\ "content" \in Range(ran[w])) =>
              \A k \in 1..page_count(d) :
                 IF PageFails(d, k)
                 THEN \A i \in 1..Len(result[w].outline) :
                          result[w].outline[i].page # k
                 ELSE \A h \in Range(find_headings_on_page(d, k)) :
                          \E i \in 1..Len(result[w].outline) :
                             /\ result[w].outline[i].page = k
                             /\ Lower(result[w].outline[i].text) = Lower(h.text)

\* the normaliser has run: nmid is its sequence before the level repair,
\* nout the one after
Refined == nphase \in {"once", "twice"}

\* C17: the level repair takes the items in order with currentLevel
\* starting at 1; the new ordinal is min(old ordinal, currentLevel + 1) and
\* becomes currentLevel; an item of ordinal at most currentLevel + 1 keeps
\* its level, no ordinal is increased, and texts, pages, number and order
\* of the items are unchanged.
C17_RepairRule ==
    Refined =>
        /\ Len(nout) = Len(nmid)
        /\ \A i \in 1..Len(nmid) :
             LET old == LevelOrdinal(nmid[i])
                 currentLevel == IF i = 1 THEN 1 ELSE LevelOrdinal(nout[i - 1])
                 new == IF old < currentLevel + 1 THEN old ELSE currentLevel + 1
             IN  /\ nout[i].text = nmid[i].text
                 /\ nout[i].page = nmid[i].page
                 /\ nout[i].level = <<"h", new>>
                 /\ new <= old
                 /\ old <= currentLevel + 1 => nout[i].level = nmid[i].level

\* one item was clamped and a later one went back to a shallower level
C17_Witness ==
    /\ nphase = "once"
    /\ Len(nout) = 3
    /\ LevelOrdinal(nmid[1]) > 2 /\ LevelOrdinal(nout[1]) = 2
    /\ LevelOrdinal(nout[2]) = 3
    /\ LevelOrdinal(nmid[3]) = 1 /\ LevelOrdinal(nout[3]) = 1

\* the key of the claim: lower-cased text and page
LowerKey(item) == <<Lower(item.text), item.page>>

\* the place of the first item of raw that has the key of item
FirstAt(raw, item) ==
    Min({j \in 1..Len(raw) : LowerKey(raw[j]) = LowerKey(item)} \cup {Len(raw) + 1})

\* C18: before the level repair the normaliser's sequence holds exactly
\* the first occurrence of each distinct key (lower-cased text, page) of
\* the raw outline, ordered by page ascending, items of one page in their
\* original order; no two items share a key and every raw key is there.
C18_DedupeThenStableSort ==
    Refined =>
        /\ \A i \in 1..Len(nmid) :
             /\ FirstAt(nraw, nmid[i]) <= Len(nraw)
             /\ nmid[i] = nraw[FirstAt(nraw, nmid[i])]
        /\ \A i, j \in 1..Len(nmid) :
             /\ i # j => LowerKey(nmid[i]) # LowerKey(nmid[j])
             /\ i < j => nmid[i].page <= nmid[j].page
             /\ (i < j /\ nmid[i].page = nmid[j].page)
                  => FirstAt(nraw, nmid[i]) < FirstAt(nraw, nmid[j])
        /\ \A j \in 1..Len(nraw) :
             \E i \in 1..Len(nmid) : LowerKey(nmid[i]) = LowerKey(nraw[j])

\* a raw outline that begins on page 2, repeats a key in another case and
\* has two different items on page 1
C18_Witness ==
    /\ nphase = "once"
    /\ Len(nraw) = 3 /\ Len(nmid) = 2
    /\ nraw[1].page = 2 /\ nraw[2].page = 1 /\ nraw[3].page = 1
    /\ nraw[2].text # nraw[3].text
    /\ Lower(nraw[2].text) = Lower(nraw[3].text)
    /\ nmid = <<nraw[2], nraw[1]>>

\* the first-page strategy ran on a first page that could be read
FirstPageRan(w) ==
    /\ "first_page" \in Range(ran[w])
    /\ ~PageFails(doc[w], 1)

\* the first-page strategy returned the title
FirstPageReturned(w) ==
    /\ TitleRan(w) = <<"metadata", "outline", "first_page">>
    /\ TitleReturned(w)

\* the spans of page 1 whose cleaned text has from 5 to 200 characters and
\* holds no ignore word
QualifyingSpans(d) ==
    SelectSeq(StrippedSpans(d.pages[1]),
              LAMBDA sp : /\ Len(clean_text(sp.text)) >= 5
                          /\ Len(clean_text(sp.text)) <= 200
                          /\ \A word \in IgnoreWords :
                                ~Contains(Lower(sp.text), word))

\* C19: in first-page scoring the candidates are exactly the spans of page
\* 1 whose cleaned length is from 5 to 200 and that hold no ignore word;
\* whenever such a span exists the strategy returns a title.
C19_EverySpanIsCandidate ==
    \A w \in Workers :
        FirstPageRan(w) =>
            /\ FirstPageCandidates(doc[w]) = QualifyingSpans(doc[w])
            /\ QualifyingSpans(doc[w]) # <<>>
                 => (pc[w] # "font_size" /\ "font_size" \notin Range(ran[w]))

\* C20: first-page scoring returns the cleaned text of a candidate of
\* maximum score, and of the earliest one in span order when several
\* candidates have the maximum score.
C20_BestScoreFirstWins ==
    \A w \in Workers :
        FirstPageReturned(w) =>
            LET c == FirstPageCandidates(doc[w])
                score(i) == calculate_title_score(c[i])
            IN  \E i \in 1..Len(c) :
                   /\ title[w] = clean_text(c[i].text)
                   /\ \A j \in 1..Len(c) : score(j) <= score(i)
                   /\ \A j \in 1..(i - 1) : score(j) < score(i)

\* a lesser candidate came first, then two different candidates of the
\* maximum score; the earlier of the two was returned
C20_Witness ==
    \E w \in Workers :
        LET c == FirstPageCandidates(doc[w])
        IN  /\ FirstPageReturned(w)
            /\ Len(c) = 3
            /\ calculate_title_score(c[1]) < calculate_title_score(c[2])
            /\ calculate_title_score(c[2]) = calculate_title_score(c[3])
            /\ c[2].text # c[3].text
            /\ title[w] = clean_text(c[2].text)

\* the file of worker w has its status recorded by process_single_pdf
Recorded(w) == status[w] # "none"

\* C22: a document whose handle is unusable (it has no pages, or it cannot
\* be opened) is recorded with status "error" and counted in errors; it is
\* never recorded as a success with the empty result.
C22_UnusableIsError ==
    \A w \in Workers :
        (Recorded(w) /\ IsInvalid(doc[w])) =>
            /\ status[w] = "error"
            /\ errors >= 1
            /\ ~(status[w] = "success" /\ result[w] = EmptyResult)

\* the largest-font scan ran, could read the pages it scans, and
\* extract_title has returned
FontScanReturned(w) ==
    /\ TitleRan(w) = <<"metadata", "outline", "first_page", "font_size">>
    /\ TitleReturned(w)
    /\ \A k \in 1..Min({3, page_count(doc[w])}) : k \notin doc[w].faults.page

\* a span the scan takes for a candidate
IsFontCandidate(b) == Len(b.text) > 5 /\ is_likely_title(b.text)

\* the candidates among the spans of pages from..to of d, in document order
FontCandidates(d, from, to) ==
    SelectSeq(Concat([k \in 1..(to - from + 1) |-> text_blocks(d, from + k - 1)]),
              IsFontCandidate)

\* C21: the largest-font scan looks at the first min(3, pageCount) pages
\* only; it returns the cleaned text of the first candidate span (length
\* over 5, a likely title), in document order, of the maximum font size of
\* all the candidates, and no title when there is no candidate.
C21_LargestFontFirstWins ==
    \A w \in Workers :
        FontScanReturned(w) =>
            LET c == FontCandidates(doc[w], 1, Min({3, page_count(doc[w])}))
            IN  IF c = <<>> THEN title[w] = NoTitle
                ELSE \E i \in 1..Len(c) :
                        /\ title[w] = clean_text(c[i].text)
                        /\ \A j \in 1..Len(c) : c[j].size <= c[i].size
                        /\ \A j \in 1..(i - 1) : c[j].size < c[i].size

\* a document of more than three pages: the returned candidate took the
\* place of a smaller one before it, kept it against a different one of
\* equal size after it, and a larger candidate of page 4 was not looked at
C21_Witness ==
    \E w \in Workers :
        LET d == doc[w]
            c == FontCandidates(d, 1, 3)
            beyond == FontCandidates(d, 4, page_count(d))
        IN  /\ FontScanReturned(w)
            /\ page_count(d) > 3
            /\ \E i \in 1..Len(c) :
                  /\ title[w] = clean_text(c[i].text)
                  /\ \E j \in 1..(i - 1) : c[j].size < c[i].size
                  /\ \E k \in (i + 1)..Len(c) :
                        c[k].size = c[i].size /\ c[k].text # c[i].text
                  /\ \E m \in 1..Len(beyond) : beyond[m].size > c[i].size

====
